---- MODULE Spec2Model ----
(***************************************************************************)
(* Model of package logger (gwtony/logger): the process-wide               *)
(* DefaultLoggerConfig / DefaultZapLogger / DefaultZapSugaredLogger        *)
(* variables, SetLogLevel, Configure, Init and the Log facade methods.     *)
(*                                                                         *)
(* The repository holds two revisions of the package.  They share          *)
(* SetLogLevel, Configure, Init, newRollingFile and newZapLogger; they     *)
(* differ in the initial value of DefaultZapLogger and in the presence of  *)
(* the sugared logger with the formatted facade methods.  The variable     *)
(* `build` says which revision the process was built from.                 *)
(*                                                                         *)
(* Strings that the code inspects character by character (file paths) are  *)
(* sequences of one-character strings; level names are compared whole and  *)
(* stay TLA+ strings.                                                      *)
(***************************************************************************)
EXTENDS Integers, Sequences, FiniteSets, TLC

VARIABLES
    build,                   \* "logger.go" or "part_000": the revision built
    DefaultLoggerConfig,     \* var DefaultLoggerConfig Config
    DefaultZapLogger,        \* var DefaultZapLogger *zap.Logger
    DefaultZapSugaredLogger, \* var DefaultZapSugaredLogger *zap.SugaredLogger
    exited,                  \* the process has called os.Exit (Fatal)
    configured,              \* history: Configure has run at least once
    last,                    \* the last call made, its arguments and outcome
    pcC, cfgC,               \* a Configure running step by step: position, argument
    pcD, stackD,             \* a Debug running step by step: position, flag read
    genLogger, genSugar, genConfig, \* which Configure call wrote each variable
    nextGen,                 \* number of the next Configure call
    obs                      \* what the last finished concurrent facade call read

vars == <<build, DefaultLoggerConfig, DefaultZapLogger, DefaultZapSugaredLogger,
          exited, configured, last, pcC, cfgC, pcD, stackD,
          genLogger, genSugar, genConfig, nextGen, obs>>

----------------------------------------------------------------------------
(* Bounds of the model *)

\* longest file path handed to Init, in characters
MaxPathLen == 2

\* number of Configure calls followed in the interleaved specification
MaxGen == 3

----------------------------------------------------------------------------
(* zapcore.Level: the values the code assigns, and the order zap filters by *)

DebugLevel == -1
InfoLevel == 0
WarnLevel == 1
ErrorLevel == 2
PanicLevel == 4
FatalLevel == 5

\* every value of zapcore.Level a caller of Configure can name
ZapLevels == DebugLevel..FatalLevel

\* the severities of the six facade methods
FacadeLevels == {DebugLevel, InfoLevel, WarnLevel, ErrorLevel, PanicLevel, FatalLevel}

----------------------------------------------------------------------------
(* path/filepath on a Unix build, over sequences of characters *)

Sep == "/"
Dot == <<".">>
DotDot == <<".", ".">>

\* the characters file paths are made of: the separator and a name character
PathChars == {"/", "a"}

RECURSIVE SeqsUpTo(_)
SeqsUpTo(n) ==
    IF n = 0 THEN {<<>>}
    ELSE LET shorter == SeqsUpTo(n - 1)
         IN  shorter \cup {Append(s, c) : s \in {t \in shorter : Len(t) = n - 1},
                                          c \in PathChars}

\* index of the last separator of p, 0 when there is none
RECURSIVE LastSep(_)
LastSep(p) ==
    IF Len(p) = 0 THEN 0
    ELSE IF p[Len(p)] = Sep THEN Len(p)
    ELSE LastSep(SubSeq(p, 1, Len(p) - 1))

RECURSIVE StripTrailingSeps(_)
StripTrailingSeps(p) ==
    IF Len(p) > 0 /\ p[Len(p)] = Sep
    THEN StripTrailingSeps(SubSeq(p, 1, Len(p) - 1))
    ELSE p

\* filepath.Base
Base(p) ==
    IF Len(p) = 0 THEN Dot
    ELSE LET q == StripTrailingSeps(p)
             r == SubSeq(q, LastSep(q) + 1, Len(q))
         IN  IF Len(r) = 0 THEN <<Sep>> ELSE r

\* the elements of a path between separators, empty ones included
RECURSIVE Elements(_)
Elements(p) ==
    IF Len(p) = 0 THEN <<>>
    ELSE LET i == LastSep(p)
         IN  IF i = 0 THEN <<p>>
             ELSE Append(Elements(SubSeq(p, 1, i - 1)), SubSeq(p, i + 1, Len(p)))

\* filepath.Clean's walk over the elements: drop empty and ".", let ".."
\* remove the element before it, keep a leading ".." of an unrooted path
RECURSIVE CleanElements(_, _, _)
CleanElements(els, rooted, out) ==
    IF Len(els) = 0 THEN out
    ELSE LET e == Head(els)
             rest == Tail(els)
         IN  IF Len(e) = 0 \/ e = Dot
               THEN CleanElements(rest, rooted, out)
             ELSE IF e = DotDot
               THEN IF Len(out) > 0 /\ out[Len(out)] # DotDot
                      THEN CleanElements(rest, rooted, SubSeq(out, 1, Len(out) - 1))
                    ELSE IF rooted
                      THEN CleanElements(rest, rooted, out)
                    ELSE CleanElements(rest, rooted, Append(out, e))
             ELSE CleanElements(rest, rooted, Append(out, e))

RECURSIVE JoinElements(_)
JoinElements(els) ==
    IF Len(els) = 0 THEN <<>>
    ELSE IF Len(els) = 1 THEN els[1]
    ELSE els[1] \o <<Sep>> \o JoinElements(Tail(els))

\* filepath.Clean
Clean(p) ==
    IF Len(p) = 0 THEN Dot
    ELSE LET rooted == p[1] = Sep
             body == JoinElements(CleanElements(Elements(p), rooted, <<>>))
         IN  IF rooted THEN <<Sep>> \o body
             ELSE IF Len(body) = 0 THEN Dot
             ELSE body

\* filepath.Dir
Dir(p) == Clean(SubSeq(p, 1, LastSep(p)))

\* path.Join of two elements
Join(d, f) ==
    IF Len(d) = 0 /\ Len(f) = 0 THEN <<>>
    ELSE IF Len(d) = 0 THEN Clean(f)
    ELSE IF Len(f) = 0 THEN Clean(d)
    ELSE Clean(d \o <<Sep>> \o f)

----------------------------------------------------------------------------
(* Values of the program's types *)

\* type Config struct, as a record
ConfigOf(json, file, dir, name, size, backups, age, stack, lvl) ==
    [EncodeLogsAsJson |-> json, FileLoggingEnabled |-> file,
     Directory |-> dir, Filename |-> name,
     MaxSize |-> size, MaxBackups |-> backups, MaxAge |-> age,
     StackStrace |-> stack, LogLevel |-> lvl]

\* the zero value of Config: what `var DefaultLoggerConfig Config` holds
ZeroConfig == ConfigOf(FALSE, FALSE, <<>>, <<>>, 0, 0, 0, FALSE, 0)

\* a zapcore.WriteSyncer: os.Stdout, a lumberjack.Logger, or the nil interface
WriterOf(kind, filename, size, age, backups) ==
    [kind |-> kind, Filename |-> filename,
     MaxSize |-> size, MaxAge |-> age, MaxBackups |-> backups]

Stdout == WriterOf("stdout", <<>>, 0, 0, 0)

NilWriter == WriterOf("nil", <<>>, 0, 0, 0)

\* a nil *zap.Logger (and a nil *zap.SugaredLogger)
NilLogger == [nil |-> TRUE, json |-> FALSE, out |-> <<>>, level |-> 0]

----------------------------------------------------------------------------
(* Construction of a logger *)

\* newRollingFile; mkdirOk is the outcome of os.MkdirAll
newRollingFile(config, mkdirOk) ==
    IF ~mkdirOk THEN NilWriter
    ELSE WriterOf("lumberjack", Join(config.Directory, config.Filename),
                  config.MaxSize, config.MaxAge, config.MaxBackups)

\* zapcore.NewMultiWriteSyncer: the writers, in order, none of them inspected
NewMultiWriteSyncer(writers) == writers

\* newZapLogger: the encoder chosen by the flag, the output, and an atomic
\* level created at the value DefaultLoggerConfig.LogLevel has at this moment
\* (cfg is the value of the global DefaultLoggerConfig when it is called)
newZapLogger(cfg, encodeAsJSON, output) ==
    [nil |-> FALSE, json |-> encodeAsJSON, out |-> output, level |-> cfg.LogLevel]

\* (*zap.Logger).Sugar: a sugared logger over the same core
Sugar(logger) == logger

----------------------------------------------------------------------------
(* The package's functions, as functions of the package variables           *)
(* g = [cfg, logger, sugar]                                                *)

Globals ==
    [cfg |-> DefaultLoggerConfig, logger |-> DefaultZapLogger,
     sugar |-> DefaultZapSugaredLogger]

HasSugar == build = "part_000"

\* the error values returned
NoError == "nil"
BadFile == "Bad file"
BadSizeOrBackup == "Bad size or backup"
BadLogLevel == "Bad log level"

\* SetLogLevel with the two remaining severities accepted as well
SetLogLevelAllSeverities(g, level) ==
    IF level = "debug"
      THEN [g |-> [g EXCEPT !.cfg.LogLevel = DebugLevel], err |-> NoError]
    ELSE IF level = "info"
      THEN [g |-> [g EXCEPT !.cfg.LogLevel = InfoLevel], err |-> NoError]
    ELSE IF level = "warn"
      THEN [g |-> [g EXCEPT !.cfg.LogLevel = WarnLevel], err |-> NoError]
    ELSE IF level = "error"
      THEN [g |-> [g EXCEPT !.cfg.LogLevel = ErrorLevel], err |-> NoError]
    ELSE IF level = "panic"
      THEN [g |-> [g EXCEPT !.cfg.LogLevel = PanicLevel], err |-> NoError]
    ELSE IF level = "fatal"
      THEN [g |-> [g EXCEPT !.cfg.LogLevel = FatalLevel], err |-> NoError]
    ELSE [g |-> g, err |-> BadLogLevel]

\* SetLogLevel: the level the name stands for, only the four names accepted
SetLogLevel(g, level) ==
    IF level = "debug"
      THEN [g |-> [g EXCEPT !.cfg.LogLevel = DebugLevel], err |-> NoError]
    ELSE IF level = "info"
      THEN [g |-> [g EXCEPT !.cfg.LogLevel = InfoLevel], err |-> NoError]
    ELSE IF level = "warn"
      THEN [g |-> [g EXCEPT !.cfg.LogLevel = WarnLevel], err |-> NoError]
    ELSE IF level = "error"
      THEN [g |-> [g EXCEPT !.cfg.LogLevel = ErrorLevel], err |-> NoError]
    ELSE [g |-> g, err |-> BadLogLevel]

\* the writers Configure collects
ConfigureWriters(config, mkdirOk) ==
    IF config.FileLoggingEnabled
    THEN <<Stdout, newRollingFile(config, mkdirOk)>>
    ELSE <<Stdout>>

\* ConfigureLogger with the level taken from the argument, as if
\* DefaultLoggerConfig = config had been moved to the top of Configure
ConfigureLoggerAtArgLevel(g, config, mkdirOk) ==
    [g EXCEPT !.logger =
        newZapLogger(config, config.EncodeLogsAsJson,
                     NewMultiWriteSyncer(ConfigureWriters(config, mkdirOk)))]

\* Configure, first statement group: build the logger and assign it
ConfigureLogger(g, config, mkdirOk) ==
    [g EXCEPT !.logger =
        newZapLogger(g.cfg, config.EncodeLogsAsJson,
                     NewMultiWriteSyncer(ConfigureWriters(config, mkdirOk)))]

\* Configure, part_000 only: DefaultZapSugaredLogger = DefaultZapLogger.Sugar()
ConfigureSugar(g, hasSugar) ==
    IF hasSugar THEN [g EXCEPT !.sugar = Sugar(g.logger)] ELSE g

\* Configure, last statement: DefaultLoggerConfig = config
ConfigureStore(g, config) == [g EXCEPT !.cfg = config]

\* Configure, run from its first statement to its last
Configure(g, config, mkdirOk, hasSugar) ==
    ConfigureStore(ConfigureSugar(ConfigureLogger(g, config, mkdirOk), hasSugar),
                   config)

\* Init with the level set before the size and backup are checked
LoggerInitLevelFirst(g, file, level, size, backup, stackstrace, mkdirOk, hasSugar) ==
    LET name == Base(file)
        dir0 == Dir(file)
        dir == IF dir0 = <<>> THEN <<".", "/">> ELSE dir0
        config == ConfigOf(TRUE, TRUE, dir, name, size, backup, 0, stackstrace, 0)
        lvl == IF level = "" THEN "error" ELSE level
        set == SetLogLevel(g, lvl)
    IN  IF name = <<>> THEN [g |-> g, err |-> BadFile]
        ELSE IF set.err # NoError THEN [g |-> set.g, err |-> set.err]
        ELSE IF size < 0 \/ backup < 0 THEN [g |-> set.g, err |-> BadSizeOrBackup]
        ELSE [g |-> Configure(set.g, config, mkdirOk, hasSugar), err |-> NoError]

\* Init (the package function)
LoggerInit(g, file, level, size, backup, stackstrace, mkdirOk, hasSugar) ==
    LET name == Base(file)
        dir0 == Dir(file)
        dir == IF dir0 = <<>> THEN <<".", "/">> ELSE dir0
        config == ConfigOf(TRUE, TRUE, dir, name, size, backup, 0, stackstrace, 0)
        lvl == IF level = "" THEN "error" ELSE level
        set == SetLogLevel(g, lvl)
    IN  IF name = <<>> THEN [g |-> g, err |-> BadFile]
        ELSE IF size < 0 \/ backup < 0 THEN [g |-> g, err |-> BadSizeOrBackup]
        ELSE IF set.err # NoError THEN [g |-> set.g, err |-> set.err]
        ELSE [g |-> Configure(set.g, config, mkdirOk, hasSugar), err |-> NoError]

----------------------------------------------------------------------------
(* Writing a record through a logger (zap's side of a facade call) *)

\* the multi write syncer's Write: each writer in turn; a call through the
\* nil interface is a run-time fault that ends the walk
RECURSIVE WriteTo(_, _)
WriteTo(writers, acc) ==
    IF Len(writers) = 0 THEN acc
    ELSE LET w == Head(writers)
         IN  IF w.kind = "nil" THEN [acc EXCEPT !.fault = TRUE]
             ELSE IF w.kind = "stdout"
               THEN WriteTo(Tail(writers), [acc EXCEPT !.stdout = TRUE])
             ELSE WriteTo(Tail(writers), [acc EXCEPT !.file = TRUE])

NothingWritten == [stdout |-> FALSE, file |-> FALSE, fault |-> FALSE]

\* zapcore's level check: a record passes when its severity is at least the
\* logger's level
Enabled(logger, sev) == sev >= logger.level

\* (*zap.Logger).Debug/Info/Warn/Error/Panic/Fatal and their sugared forms:
\* a nil receiver faults; an enabled record is written; Panic then panics and
\* Fatal then exits, whether or not the record was written
ZapLog(logger, sev) ==
    IF logger.nil
    THEN [fault |-> TRUE, emitted |-> FALSE, filed |-> FALSE,
          panicked |-> FALSE, exit |-> FALSE]
    ELSE LET w == IF Enabled(logger, sev)
                  THEN WriteTo(logger.out, NothingWritten)
                  ELSE NothingWritten
         IN  [fault |-> w.fault, emitted |-> w.stdout, filed |-> w.file,
              panicked |-> ~w.fault /\ sev = PanicLevel,
              exit |-> ~w.fault /\ sev = FatalLevel]

\* the logger a facade method calls: the formatted methods use the sugared one
FacadeTarget(g, formatted) == IF formatted THEN g.sugar ELSE g.logger

\* Log.Debug appends the Stack() field when DefaultLoggerConfig.StackStrace
FacadeStack(g, sev) == sev = DebugLevel /\ g.cfg.StackStrace

\* the facade methods the revision has: Debug has no formatted form, and
\* logger.go has none at all
HasFacade(sev, formatted, hasSugar) ==
    formatted => (hasSugar /\ sev # DebugLevel)

----------------------------------------------------------------------------
(* Inputs *)

LevelNames == {"debug", "info", "warn", "error", "", "panic", "fatal", "DEBUG"}

\* every file path of at most MaxPathLen characters
Paths == SeqsUpTo(MaxPathLen)

\* the (size, backup) pairs handed to Init
SizeBackups == {<<10, 3>>, <<-1, 3>>, <<10, -1>>}

\* the Config values handed to Configure directly
ConfigInputs ==
    {ConfigOf(FALSE, file, <<"d">>, <<"f">>, 10, 3, 7, stack, lvl) :
        file \in BOOLEAN, stack \in BOOLEAN, lvl \in ZapLevels}

----------------------------------------------------------------------------
(* State after package initialisation *)

NoCall ==
    [op |-> "none", level |-> "", file |-> <<>>, size |-> 0, backup |-> 0,
     sev |-> 0, formatted |-> FALSE, err |-> NoError,
     fault |-> FALSE, emitted |-> FALSE, filed |-> FALSE,
     stack |-> FALSE, panicked |-> FALSE]

NoObs == [done |-> FALSE, flagGen |-> 0, loggerGen |-> 0]

\* logger.go: var DefaultZapLogger = newZapLogger(false, os.Stdout), run while
\* DefaultLoggerConfig still holds its zero value; part_000: both loggers nil
InitialLogger(b) ==
    IF b = "logger.go" THEN newZapLogger(ZeroConfig, FALSE, <<Stdout>>)
    ELSE NilLogger

Init ==
    /\ build \in {"logger.go", "part_000"}
    /\ DefaultLoggerConfig = ZeroConfig
    /\ DefaultZapLogger = InitialLogger(build)
    /\ DefaultZapSugaredLogger = NilLogger
    /\ exited = FALSE
    /\ configured = FALSE
    /\ last = NoCall
    /\ pcC = "idle"
    /\ cfgC = ZeroConfig
    /\ pcD = "idle"
    /\ stackD = [flag |-> FALSE, gen |-> 0]
    /\ genLogger = 0
    /\ genSugar = 0
    /\ genConfig = 0
    /\ nextGen = 1
    /\ obs = NoObs

Publish(g) ==
    /\ DefaultLoggerConfig' = g.cfg
    /\ DefaultZapLogger' = g.logger
    /\ DefaultZapSugaredLogger' = g.sugar

concVars == <<pcC, cfgC, pcD, stackD, genLogger, genSugar, genConfig, nextGen, obs>>

----------------------------------------------------------------------------
(* Calls made one after another, each running to its end *)

CallSetLogLevel(level) ==
    /\ ~exited
    /\ LET r == SetLogLevel(Globals, level)
       IN  /\ Publish(r.g)
           /\ last' = [NoCall EXCEPT !.op = "SetLogLevel", !.level = level,
                                     !.err = r.err]
    /\ UNCHANGED <<build, exited, configured, concVars>>

CallConfigure(config, mkdirOk) ==
    /\ ~exited
    /\ Publish(Configure(Globals, config, mkdirOk, HasSugar))
    /\ configured' = TRUE
    /\ last' = [NoCall EXCEPT !.op = "Configure"]
    /\ UNCHANGED <<build, exited, concVars>>

CallInit(file, level, size, backup, stackstrace, mkdirOk) ==
    /\ ~exited
    /\ LET r == LoggerInit(Globals, file, level, size, backup, stackstrace,
                           mkdirOk, HasSugar)
       IN  /\ Publish(r.g)
           /\ configured' = (configured \/ r.err = NoError)
           /\ last' = [NoCall EXCEPT !.op = "Init", !.file = file,
                                     !.level = level, !.size = size,
                                     !.backup = backup, !.err = r.err]
    /\ UNCHANGED <<build, exited, concVars>>

CallFacade(sev, formatted) ==
    /\ ~exited
    /\ HasFacade(sev, formatted, HasSugar)
    /\ LET r == ZapLog(FacadeTarget(Globals, formatted), sev)
       IN  /\ exited' = r.exit
           /\ last' = [NoCall EXCEPT !.op = "Facade", !.sev = sev,
                                     !.formatted = formatted,
                                     !.fault = r.fault, !.emitted = r.emitted,
                                     !.filed = r.filed, !.panicked = r.panicked,
                                     !.stack = FacadeStack(Globals, sev)]
    /\ UNCHANGED <<build, DefaultLoggerConfig, DefaultZapLogger,
                   DefaultZapSugaredLogger, configured, concVars>>

\* the calls a single caller can make, with the arguments drawn from the
\* given sets
NextOf(setNames, configs, paths, initNames, sizeBackups, stacks, mkdirs) ==
    \/ \E level \in setNames : CallSetLogLevel(level)
    \/ \E config \in configs, mkdirOk \in mkdirs :
          CallConfigure(config, mkdirOk)
    \/ \E file \in paths, level \in initNames, sb \in sizeBackups,
          stackstrace \in stacks, mkdirOk \in mkdirs :
          CallInit(file, level, sb[1], sb[2], stackstrace, mkdirOk)
    \/ \E sev \in FacadeLevels, formatted \in BOOLEAN : CallFacade(sev, formatted)

\* Levels and sinks: every level name, every Config level, one file path
Next ==
    NextOf(LevelNames, ConfigInputs, {<<"/", "a">>}, LevelNames, {<<10, 3>>},
           BOOLEAN, BOOLEAN)

Spec == Init /\ [][Next]_vars

\* Init's argument checks: every path, every (size, backup) pair
NextArgs ==
    NextOf({"warn", "WARN"},
           {c \in ConfigInputs : c.LogLevel = DebugLevel /\ ~c.StackStrace},
           Paths, {"error", "", "panic"}, SizeBackups, {FALSE}, {TRUE})

SpecArgs == Init /\ [][NextArgs]_vars

----------------------------------------------------------------------------
(* Calls from two goroutines: one runs Configure statement by statement,   *)
(* the other makes facade calls.  The code takes no lock, so every         *)
(* interleaving of the statements can happen.  genLogger, genSugar and     *)
(* genConfig record which Configure call (0: none yet) last assigned each  *)
(* package variable.                                                       *)

\* the Config values handed to Configure in the interleaved runs
ConcConfigs == {c \in ConfigInputs : c.LogLevel = DebugLevel}

\* Configure: writers built, DefaultZapLogger = newZapLogger(...)
ConfigureAssignLogger(config, mkdirOk) ==
    /\ ~exited
    /\ pcC = "idle"
    /\ nextGen <= MaxGen
    /\ Publish(ConfigureLogger(Globals, config, mkdirOk))
    /\ genLogger' = nextGen
    /\ cfgC' = config
    /\ pcC' = IF HasSugar THEN "sugar" ELSE "store"
    /\ UNCHANGED <<build, exited, configured, last, pcD, stackD, genSugar,
                   genConfig, nextGen, obs>>

\* Configure (part_000): DefaultZapSugaredLogger = DefaultZapLogger.Sugar()
ConfigureAssignSugar ==
    /\ ~exited
    /\ pcC = "sugar"
    /\ Publish(ConfigureSugar(Globals, HasSugar))
    /\ genSugar' = genLogger
    /\ pcC' = "store"
    /\ UNCHANGED <<build, exited, configured, last, cfgC, pcD, stackD,
                   genLogger, genConfig, nextGen, obs>>

\* Configure: DefaultLoggerConfig = config, and return
ConfigureAssignConfig ==
    /\ ~exited
    /\ pcC = "store"
    /\ Publish(ConfigureStore(Globals, cfgC))
    /\ genConfig' = nextGen
    /\ nextGen' = nextGen + 1
    /\ configured' = TRUE
    /\ cfgC' = ZeroConfig
    /\ pcC' = "idle"
    /\ UNCHANGED <<build, exited, last, pcD, stackD, genLogger, genSugar, obs>>

\* Log.Debug: the test of DefaultLoggerConfig.StackStrace
DebugReadStackStrace ==
    /\ ~exited
    /\ pcD = "idle"
    /\ stackD' = [flag |-> DefaultLoggerConfig.StackStrace, gen |-> genConfig]
    /\ pcD' = "log"
    /\ UNCHANGED <<build, DefaultLoggerConfig, DefaultZapLogger,
                   DefaultZapSugaredLogger, exited, configured, last, pcC, cfgC,
                   genLogger, genSugar, genConfig, nextGen, obs>>

\* Log.Debug: DefaultZapLogger.Debug(msg, fields...), in either branch
DebugLog ==
    /\ ~exited
    /\ pcD = "log"
    /\ LET r == ZapLog(DefaultZapLogger, DebugLevel)
       IN  last' = [NoCall EXCEPT !.op = "Facade", !.sev = DebugLevel,
                                  !.fault = r.fault, !.emitted = r.emitted,
                                  !.filed = r.filed, !.stack = stackD.flag]
    /\ obs' = [done |-> TRUE, flagGen |-> stackD.gen, loggerGen |-> genLogger]
    /\ stackD' = [flag |-> FALSE, gen |-> 0]
    /\ pcD' = "idle"
    /\ UNCHANGED <<build, DefaultLoggerConfig, DefaultZapLogger,
                   DefaultZapSugaredLogger, exited, configured, pcC, cfgC,
                   genLogger, genSugar, genConfig, nextGen>>

NextConc ==
    \/ \E config \in ConcConfigs, mkdirOk \in BOOLEAN :
          ConfigureAssignLogger(config, mkdirOk)
    \/ ConfigureAssignSugar
    \/ ConfigureAssignConfig
    \/ DebugReadStackStrace
    \/ DebugLog

SpecConc == Init /\ [][NextConc]_vars

----------------------------------------------------------------------------
(* The documented contract, in the terms of the model *)

\* the names the level policy accepts
SupportedNames == {"debug", "info", "warn", "error"}

\* the severity a supported name stands for
NamedLevel(name) ==
    CASE name = "debug" -> DebugLevel
      [] name = "info" -> InfoLevel
      [] name = "warn" -> WarnLevel
      [] name = "error" -> ErrorLevel

\* the filename part of a path split at its last separator
FilenameComponent(p) == SubSeq(p, LastSep(p) + 1, Len(p))

\* logger passes exactly the facade severities at or above lvl
FiltersAt(logger, lvl) ==
    /\ ~logger.nil
    /\ \A sev \in FacadeLevels : Enabled(logger, sev) <=> sev >= lvl

\* the logger's sink holds the nil writer newRollingFile returns on failure
HasNilWriter(logger) ==
    \E i \in 1..Len(logger.out) : logger.out[i].kind = "nil"

GlobalsUnchanged ==
    UNCHANGED <<DefaultLoggerConfig, DefaultZapLogger, DefaultZapSugaredLogger>>

----------------------------------------------------------------------------
(* Claims *)

\* C1: for every supported level name L, once SetLevel(L) has returned, the
\* call has succeeded and the live logger emits exactly the records of
\* severity at or above L, with no Configure call in between.
C1_SetLevelTakesEffect ==
    (last.op = "SetLogLevel" /\ last.level \in SupportedNames
        /\ ~DefaultZapLogger.nil)
    => (last.err = NoError /\ FiltersAt(DefaultZapLogger, NamedLevel(last.level)))

\* C2: SetLevel with a name outside {"debug","info","warn","error"} returns
\* the invalid-level error and leaves the Configuration and both loggers as
\* they were.
C2_InvalidLevelLeavesStateUntouched ==
    [][(last'.op = "SetLogLevel" /\ last'.level \notin SupportedNames)
        => (last'.err = BadLogLevel /\ GlobalsUnchanged)]_vars

C2_Witness ==
    /\ last.op = "SetLogLevel"
    /\ last.level = "fatal"
    /\ last.err = BadLogLevel
    /\ DefaultLoggerConfig.LogLevel = WarnLevel
    /\ ~DefaultZapLogger.nil

\* C3: Init fails with the bad-file error whenever the filename component of
\* the path, split at its last separator, is empty.
C3_EmptyFilenameIsBadFile ==
    (last.op = "Init" /\ FilenameComponent(last.file) = <<>>)
    => last.err = BadFile

\* C3, the named case: Init("", "error", 10, 3, false) returned no error and
\* went on to Configure
C3_EmptyPathAccepted ==
    /\ last.op = "Init"
    /\ last.file = <<>>
    /\ last.level = "error"
    /\ last.size = 10
    /\ last.backup = 3
    /\ last.err = NoError
    /\ DefaultLoggerConfig.Filename = Dot

\* C4: after a successful Init the live logger (and the sugared logger where
\* the revision has one) filters at the level named by levelName, or at error
\* when levelName is empty.
C4_InitSetsEffectiveLevel ==
    (last.op = "Init" /\ last.err = NoError)
    => LET lvl == NamedLevel(IF last.level = "" THEN "error" ELSE last.level)
       IN  /\ FiltersAt(DefaultZapLogger, lvl)
           /\ HasSugar => FiltersAt(DefaultZapSugaredLogger, lvl)

C4_Witness ==
    /\ last.op = "Init"
    /\ last.err = NoError
    /\ last.level = ""
    /\ DefaultZapLogger.level = ErrorLevel
    /\ DefaultLoggerConfig.LogLevel = InfoLevel

\* C5: with the log directory uncreatable, every facade call below Panic
\* severity completes without a fault.
C5_DirectoryFailureIsHarmless ==
    (last.op = "Facade" /\ last.sev < PanicLevel
        /\ ~FacadeTarget(Globals, last.formatted).nil
        /\ HasNilWriter(FacadeTarget(Globals, last.formatted)))
    => ~last.fault

\* C6: a facade call below Panic severity made before the first Configure or
\* Init completes without a fault.
C6_UsableBeforeConfigure ==
    (last.op = "Facade" /\ last.sev < PanicLevel /\ ~configured)
    => ~last.fault

\* C7: a Panic or Fatal facade call always emits its record, whatever
\* SetLevel, Init and Configure calls came before.
C7_PanicFatalNeverSuppressed ==
    (last.op = "Facade" /\ last.sev >= PanicLevel
        /\ ~FacadeTarget(Globals, last.formatted).nil)
    => last.emitted

\* C8: a Debug call that runs while Configure runs reads the capture-stack
\* setting and the logger of one and the same Configure call (or both from
\* before it).
C8_FacadeSeesOneGeneration ==
    obs.done => obs.flagGen = obs.loggerGen

\* C9: Init with a non-empty filename component and a negative size or backup
\* count fails with the bad-size-or-backup error, for every level name, and
\* leaves the Configuration and both loggers as they were.
C9_NegativeSizeOrBackupRejected ==
    [][(last'.op = "Init" /\ FilenameComponent(last'.file) # <<>>
            /\ (last'.size < 0 \/ last'.backup < 0))
        => (last'.err = BadSizeOrBackup /\ GlobalsUnchanged)]_vars

C9_Witness ==
    /\ last.op = "Init"
    /\ last.file = <<"/", "a">>
    /\ last.level = "panic"
    /\ last.backup < 0
    /\ last.err = BadSizeOrBackup
    /\ configured
    /\ DefaultLoggerConfig.LogLevel = WarnLevel

\* C10: every Configure call publishes a logger at the minimum level stored
\* when it was called and keeps that level stored, so that the stored level
\* equals the live logger's threshold when Configure returns.
C10_ConfigureKeepsLevel ==
    [][last'.op = "Configure"
        => /\ DefaultZapLogger'.level = DefaultLoggerConfig.LogLevel
           /\ DefaultLoggerConfig'.LogLevel = DefaultZapLogger'.level]_vars

====
